---- MODULE Spec2Model ----
(***************************************************************************)
(* The notification dispatcher of app.py: GET /send_notification.  Each    *)
(* request runs validate -> check_user_status -> get_device_token ->       *)
(* get_access_token -> requests.post -> respond.  Every external call is   *)
(* split into the step that issues it and the step that takes its outcome  *)
(* (a returned value or a raised exception), so that requests served       *)
(* concurrently by the host interleave at the external calls.              *)
(***************************************************************************)
EXTENDS Integers, Sequences, FiniteSets, TLC

\* Number of requests served concurrently by the host.
NumReqs ==
    2

Reqs ==
    1..NumReqs

(***************************************************************************)
(* Python values.  None and str are told apart by the tag t.               *)
(***************************************************************************)
None ==
    [t |-> "NoneType", v |-> ""]

Str(s) ==
    [t |-> "str", v |-> s]

\* A local variable that has not been assigned yet.
Unset ==
    [t |-> "unset", v |-> ""]

\* Python truthiness, as used by "not x": None and "" are falsy.
Truthy(x) ==
    x.t = "str" /\ x.v # ""

(***************************************************************************)
(* Exceptions: the Python class, what caused it, and str(e).               *)
(***************************************************************************)
NoExc ==
    [cls |-> "", cause |-> "", text |-> ""]

Exc(c, why, s) ==
    [cls |-> c, cause |-> why, text |-> s]

NoHttp ==
    [status_code |-> 0, text |-> ""]

(***************************************************************************)
(* The inputs: query parameters and the outcomes of the external services. *)
(***************************************************************************)
\* request.args.get(k): None when the parameter is absent, else its text.
TitleValues ==
    {None, Str(""), Str("Hi")}

BodyValues ==
    {None, Str(""), Str("Test")}

UserIdValues ==
    {None, Str(""), Str("u1")}

Args ==
    [title : TitleValues, body : BodyValues, user_id : UserIdValues]

\* What /users/<id>/-status holds: absent (None) or any stored text, the
\* empty string standing for every text other than the two status words.
StatusValues ==
    {None, Str("online"), Str("offline"), Str("")}

\* What /users/<id>/token holds.
TokenValues ==
    {None, Str(""), Str("abc123")}

\* A failed datastore read.
DbFailures ==
    {Exc("FirebaseError", "other", "Database unavailable")}

\* credentials.refresh(Request()): the google-auth transport Request raises
\* every requests exception, a timeout included, as TransportError; a
\* rejected grant is a RefreshError.
RefreshFailures ==
    {Exc("TransportError", "timeout", "Read timed out."),
     Exc("RefreshError", "other", "invalid_grant")}

\* requests.post(..., timeout=10): ReadTimeout and ConnectTimeout are
\* subclasses of requests.exceptions.Timeout.
PostFailures ==
    {Exc("Timeout", "timeout", "Read timed out."),
     Exc("ConnectionError", "other", "Connection refused")}

GatewayCodes ==
    {200, 204, 404}

GatewayBodies ==
    {"", "Requested entity was not found."}

GatewayResponses ==
    [status_code : GatewayCodes, text : GatewayBodies]

\* An exception raised by a statement of the route body itself.
RouteFailures ==
    {Exc("RuntimeError", "other", "logging failed")}

\* The bearer token the n-th credential refresh hands out.
IssuedToken(n) ==
    Str("ya29." \o ToString(n))

(***************************************************************************)
(* Events of the per-request log of external interactions.                 *)
(***************************************************************************)
Event(o, k, x, e, h) ==
    [op |-> o, kind |-> k, val |-> x, exc |-> e, http |-> h]

CallEv(o) ==
    Event(o, "call", Unset, NoExc, NoHttp)

RetEv(o, x) ==
    Event(o, "ret", x, NoExc, NoHttp)

RaiseEv(o, e) ==
    Event(o, "raise", Unset, e, NoHttp)

HttpEv(o, h) ==
    Event(o, "ret", Unset, NoExc, h)

VARIABLES
    args,          \* args[r]: title, body and user_id as read from the query
    pc,            \* pc[r]: where request r stands in send_notification
    user_status,   \* local of send_notification
    device_token,  \* local of send_notification
    access_token,  \* local of send_fcm_notification
    responses,     \* responses[r]: the HTTP responses returned for r
    ext,           \* ext[r]: log of r's external calls and their outcomes
    creds,         \* the credential service's log: <<request, token>> issued
    posts          \* the gateway's log: the POSTs it received

vars ==
    <<args, pc, user_status, device_token, access_token, responses, ext, creds, posts>>

(***************************************************************************)
(* The functions of app.py, as operators on the outcome they are given.    *)
(***************************************************************************)
\* A Dispatch Result, the dict every branch builds.
Result(s, m) ==
    [status |-> s, message |-> m]

\* "return jsonify(b), code"
Jsonify(b, code) ==
    [http |-> code, body |-> b]

\* A validation that only looks for absent parameters ("is None").
InvalidArgsNoneOnly(a) ==
    a.title = None \/ a.body = None \/ a.user_id = None

\* "if not title or not body or not user_id"
InvalidArgs(a) ==
    ~Truthy(a.title) \/ ~Truthy(a.body) \/ ~Truthy(a.user_id)

ValidationResponse ==
    Jsonify(Result("error", "Missing title, body, or user_id"), 400)

\* check_user_status: the value read, or None when the read raises.
check_user_status(raw) ==
    IF raw.kind = "ret" THEN raw.val ELSE None

\* get_device_token: the value read, or None when the read raises.
get_device_token(raw) ==
    IF raw.kind = "ret" THEN raw.val ELSE None

\* A get_access_token that, like the two readers, returns None on failure.
get_access_token_swallowing(raw) ==
    IF raw.kind = "ret" THEN RetEv("refresh", raw.val) ELSE RetEv("refresh", None)

\* get_access_token: credentials.token, or the exception raised again.
get_access_token(raw) ==
    IF raw.kind = "ret" THEN RetEv("refresh", raw.val) ELSE RaiseEv("refresh", raw.exc)

\* "if user_status is None"
StatusFailed(s) ==
    s = None

StatusFailedResponse ==
    Jsonify(Result("error", "Failed to check user status"), 500)

\* A comparison against a differently spelled status word.
IsOnlineCapitalised(s) ==
    s = Str("Online")

\* "if user_status == 'online'"
IsOnline(s) ==
    s = Str("online")

OnlineResponse ==
    Jsonify(Result("info", "User is online, notification not sent."), 200)

\* A token test that only looks for None ("is None").
TokenMissingNoneOnly(tok) ==
    tok = None

\* "if not device_token"
TokenMissing(tok) ==
    ~Truthy(tok)

TokenMissingResponse ==
    Jsonify(Result("error", "Device token not found for user"), 500)

\* A gateway result that counts every 2xx answer as success.
FcmResponseResultAny2xx(h) ==
    IF h.status_code >= 200 /\ h.status_code < 300
    THEN Result("success", "Notification sent successfully!")
    ELSE Result("error", h.text)

\* "if response.status_code == 200: ... else: ..."
FcmResponseResult(h) ==
    IF h.status_code = 200
    THEN Result("success", "Notification sent successfully!")
    ELSE Result("error", h.text)

\* "except requests.exceptions.Timeout"
IsTimeout(e) ==
    e.cls = "Timeout"

\* A timeout clause that reports the exception's description.
TimeoutResultDescription(e) ==
    Result("error", e.text)

TimeoutResult(e) ==
    Result("error", "Timeout while sending notification.")

\* "except Exception as e" of send_fcm_notification
ExceptionResult(e) ==
    Result("error", e.text)

\* The except clauses of send_fcm_notification, tried in order.
SendFailureResult(e) ==
    IF IsTimeout(e) THEN TimeoutResult(e) ELSE ExceptionResult(e)

\* A jsonify of the result that maps an error result to HTTP 500.
JsonifyResultByStatus(result) ==
    Jsonify(result, IF result.status = "error" THEN 500 ELSE 200)

\* "return jsonify(result)": no status code, so Flask answers 200.
JsonifyResult(result) ==
    Jsonify(result, 200)

\* A route-level except clause that hides the exception's text.
RouteCatchGeneric(e) ==
    Jsonify(Result("error", "Internal Server Error"), 500)

\* "except Exception as e" of send_notification
RouteCatch(e) ==
    Jsonify(Result("error", e.text), 500)

\* A bearer token kept in a module-level cache shared by all requests: the
\* one issued last.
AuthorizationCached(r) ==
    creds[Len(creds)][2]

\* 'Authorization': f'Bearer {access_token}'
Authorization(r) ==
    access_token[r]

\* The request send_fcm_notification submits to the gateway.
PostRequest(r) ==
    [req |-> r, bearer |-> Authorization(r), token |-> device_token[r],
     title |-> args[r].title, body |-> args[r].body]

(***************************************************************************)
(* The state machine.                                                      *)
(***************************************************************************)
Init ==
    /\ args = [r \in Reqs |-> [title |-> Unset, body |-> Unset, user_id |-> Unset]]
    /\ pc = [r \in Reqs |-> "start"]
    /\ user_status = [r \in Reqs |-> Unset]
    /\ device_token = [r \in Reqs |-> Unset]
    /\ access_token = [r \in Reqs |-> Unset]
    /\ responses = [r \in Reqs |-> <<>>]
    /\ ext = [r \in Reqs |-> <<>>]
    /\ creds = <<>>
    /\ posts = {}

Goto(r, where) ==
    /\ pc' = [pc EXCEPT ![r] = where]
    /\ UNCHANGED responses

Respond(r, resp) ==
    /\ pc' = [pc EXCEPT ![r] = "done"]
    /\ responses' = [responses EXCEPT ![r] = Append(@, resp)]

Log(r, ev) ==
    ext' = [ext EXCEPT ![r] = Append(@, ev)]

\* Lines 107-113: read the parameters and validate them.
Validate(r) ==
    /\ pc[r] = "start"
    /\ \E a \in Args :
          /\ args' = [args EXCEPT ![r] = a]
          /\ IF InvalidArgs(a)
             THEN Respond(r, ValidationResponse)
             ELSE Goto(r, "log")
    /\ UNCHANGED <<user_status, device_token, access_token, ext, creds, posts>>

\* Line 115: logging.info returns.
LogReceived(r) ==
    /\ pc[r] = "log"
    /\ Goto(r, "check")
    /\ UNCHANGED <<args, user_status, device_token, access_token, ext, creds, posts>>

\* Line 115 raises; lines 133-136 catch it.
RouteException(r) ==
    /\ pc[r] = "log"
    /\ \E e \in RouteFailures :
          /\ Log(r, RaiseEv("route", e))
          /\ Respond(r, RouteCatch(e))
    /\ UNCHANGED <<args, user_status, device_token, access_token, creds, posts>>

\* Line 118 / 49: the presence read is issued.
CallCheckUserStatus(r) ==
    /\ pc[r] = "check"
    /\ Log(r, CallEv("presence"))
    /\ Goto(r, "await_status")
    /\ UNCHANGED <<args, user_status, device_token, access_token, creds, posts>>

PresenceOutcomes ==
    {RetEv("presence", s) : s \in StatusValues} \cup {RaiseEv("presence", e) : e \in DbFailures}

\* Lines 49-55 and 118-123: the presence read ends; the route branches on it.
ReturnCheckUserStatus(r) ==
    /\ pc[r] = "await_status"
    /\ \E raw \in PresenceOutcomes :
          LET s == check_user_status(raw) IN
          /\ Log(r, raw)
          /\ user_status' = [user_status EXCEPT ![r] = s]
          /\ IF StatusFailed(s) THEN Respond(r, StatusFailedResponse)
             ELSE IF IsOnline(s) THEN Respond(r, OnlineResponse)
             ELSE Goto(r, "token")
    /\ UNCHANGED <<args, device_token, access_token, creds, posts>>

\* Line 126 / 61: the token read is issued.
CallGetDeviceToken(r) ==
    /\ pc[r] = "token"
    /\ Log(r, CallEv("token"))
    /\ Goto(r, "await_token")
    /\ UNCHANGED <<args, user_status, device_token, access_token, creds, posts>>

DeviceTokenOutcomes ==
    {RetEv("token", s) : s \in TokenValues} \cup {RaiseEv("token", e) : e \in DbFailures}

\* Lines 61-67 and 126-128: the token read ends.
ReturnGetDeviceToken(r) ==
    /\ pc[r] = "await_token"
    /\ \E raw \in DeviceTokenOutcomes :
          LET tok == get_device_token(raw) IN
          /\ Log(r, raw)
          /\ device_token' = [device_token EXCEPT ![r] = tok]
          /\ IF TokenMissing(tok) THEN Respond(r, TokenMissingResponse)
             ELSE Goto(r, "refresh")
    /\ UNCHANGED <<args, user_status, access_token, creds, posts>>

\* Lines 131, 72, 38-39: send_fcm_notification starts the credential refresh.
CallGetAccessToken(r) ==
    /\ pc[r] = "refresh"
    /\ Log(r, CallEv("refresh"))
    /\ Goto(r, "await_refresh")
    /\ UNCHANGED <<args, user_status, device_token, access_token, creds, posts>>

RefreshOutcomes ==
    {RetEv("refresh", IssuedToken(Len(creds) + 1))}
        \cup {RaiseEv("refresh", e) : e \in RefreshFailures}

\* Lines 39-43, 72 and 94-100, 132: the refresh ends; a failure is caught by
\* the except clauses of send_fcm_notification and returned as the result.
ReturnGetAccessToken(r) ==
    /\ pc[r] = "await_refresh"
    /\ \E raw \in RefreshOutcomes :
          LET out == get_access_token(raw) IN
          /\ Log(r, raw)
          /\ creds' = IF raw.kind = "ret" THEN Append(creds, <<r, raw.val>>) ELSE creds
          /\ IF out.kind = "ret"
             THEN /\ access_token' = [access_token EXCEPT ![r] = out.val]
                  /\ Goto(r, "post")
             ELSE /\ UNCHANGED access_token
                  /\ Respond(r, JsonifyResult(SendFailureResult(out.exc)))
    /\ UNCHANGED <<args, user_status, device_token, posts>>

\* Lines 73-88: the POST is submitted to the gateway.
CallPost(r) ==
    /\ pc[r] = "post"
    /\ Log(r, CallEv("post"))
    /\ posts' = posts \cup {PostRequest(r)}
    /\ Goto(r, "await_post")
    /\ UNCHANGED <<args, user_status, device_token, access_token, creds>>

PostOutcomes ==
    {HttpEv("post", h) : h \in GatewayResponses} \cup {RaiseEv("post", e) : e \in PostFailures}

\* Lines 88-100 and 132: the POST ends; its result is returned with jsonify.
ReturnPost(r) ==
    /\ pc[r] = "await_post"
    /\ \E raw \in PostOutcomes :
          /\ Log(r, raw)
          /\ IF raw.kind = "ret"
             THEN Respond(r, JsonifyResult(FcmResponseResult(raw.http)))
             ELSE Respond(r, JsonifyResult(SendFailureResult(raw.exc)))
    /\ UNCHANGED <<args, user_status, device_token, access_token, creds, posts>>

Step(r) ==
    \/ Validate(r)
    \/ LogReceived(r)
    \/ RouteException(r)
    \/ CallCheckUserStatus(r)
    \/ ReturnCheckUserStatus(r)
    \/ CallGetDeviceToken(r)
    \/ ReturnGetDeviceToken(r)
    \/ CallGetAccessToken(r)
    \/ ReturnGetAccessToken(r)
    \/ CallPost(r)
    \/ ReturnPost(r)

Next ==
    \E r \in Reqs : Step(r)

Spec ==
    Init /\ [][Next]_vars

\* The host runs every request it accepted, and every external call returns
\* or raises: a request that can take a step eventually takes one.
FairSpec ==
    Init /\ [][Next]_vars /\ \A r \in Reqs : WF_vars(Step(r))

(***************************************************************************)
(* Reading the logs.                                                       *)
(***************************************************************************)
Done(r) ==
    pc[r] = "done"

\* Request r issued the external call o.
Called(r, o) ==
    \E i \in DOMAIN ext[r] : ext[r][i] = CallEv(o)

\* The external call o of request r ended with the outcome ev.
Ended(r, ev) ==
    \E i \in DOMAIN ext[r] : ext[r][i] = ev

Raised(r, o) ==
    \E i \in DOMAIN ext[r] : ext[r][i].op = o /\ ext[r][i].kind = "raise"

PostsOf(r) ==
    {p \in posts : p.req = r}

\* Request r returned exactly the response with this code, status and message.
Answered(r, code, st, msg) ==
    responses[r] = <<[http |-> code, body |-> [status |-> st, message |-> msg]]>>

ValidArgs(r) ==
    /\ args[r].title.t = "str" /\ args[r].title.v # ""
    /\ args[r].body.t = "str" /\ args[r].body.v # ""
    /\ args[r].user_id.t = "str" /\ args[r].user_id.v # ""

\* C1: when the presence read returns "online", the request issues no token
\* read, no credential refresh and no gateway POST, and answers HTTP 200 with
\* status "info" and "User is online, notification not sent.".
C1_OnlineShortCircuit ==
    \A r \in Reqs :
        (ValidArgs(r) /\ Ended(r, RetEv("presence", Str("online")))) =>
            /\ ~Called(r, "token") /\ ~Called(r, "refresh") /\ ~Called(r, "post")
            /\ PostsOf(r) = {}
            /\ Answered(r, 200, "info", "User is online, notification not sent.")

C1_Witness ==
    \E r \in Reqs : ValidArgs(r) /\ Ended(r, RetEv("presence", Str("online"))) /\ Done(r)

\* C2: presence "offline", a non-empty token and a gateway response give
\* HTTP 200 with {success, "Notification sent successfully!"} when the
\* gateway answered 200, and otherwise {error, the gateway's body verbatim}.
C2_GatewayResult ==
    \A r \in Reqs : \A h \in GatewayResponses :
        ( /\ Ended(r, RetEv("presence", Str("offline")))
          /\ \E tok \in TokenValues :
                tok.t = "str" /\ tok.v # "" /\ Ended(r, RetEv("token", tok))
          /\ Ended(r, HttpEv("post", h)) ) =>
            IF h.status_code = 200
            THEN Answered(r, 200, "success", "Notification sent successfully!")
            ELSE Answered(r, 200, "error", h.text)

C2_Witness ==
    \E r \in Reqs : \E h \in GatewayResponses :
        /\ Ended(r, RetEv("presence", Str("offline")))
        /\ Ended(r, RetEv("token", Str("abc123")))
        /\ Ended(r, HttpEv("post", h))
        /\ h.status_code # 200 /\ h.text # ""
        /\ Done(r)

\* The presence read failed or returned a value that is neither "online" nor
\* "offline".
PresenceUnknown(r) ==
    \/ Raised(r, "presence")
    \/ \E s \in StatusValues :
          s \notin {Str("online"), Str("offline")} /\ Ended(r, RetEv("presence", s))

\* C3: when the presence read fails or returns anything but "online" or
\* "offline", the request answers HTTP 500 with status "error" and "Failed to
\* check user status" and issues no token read, refresh or POST.
C3_UnknownPresenceFails ==
    \A r \in Reqs :
        (ValidArgs(r) /\ PresenceUnknown(r)) =>
            /\ Answered(r, 500, "error", "Failed to check user status")
            /\ ~Called(r, "token") /\ ~Called(r, "refresh") /\ ~Called(r, "post")

\* The token read failed, or returned null or an empty value.
TokenAbsent(r) ==
    \/ Raised(r, "token")
    \/ Ended(r, RetEv("token", None))
    \/ Ended(r, RetEv("token", Str("")))

\* C4: presence "offline" and a token read that fails or returns null or an
\* empty value give HTTP 500 with status "error" and "Device token not found
\* for user", and no credential refresh or gateway POST is issued.
C4_TokenNotFound ==
    \A r \in Reqs :
        (Ended(r, RetEv("presence", Str("offline"))) /\ TokenAbsent(r)) =>
            /\ Answered(r, 500, "error", "Device token not found for user")
            /\ ~Answered(r, 500, "error", "Failed to check user status")
            /\ ~Called(r, "refresh") /\ ~Called(r, "post")
            /\ PostsOf(r) = {}

C4_Witness ==
    \E r \in Reqs :
        /\ Ended(r, RetEv("presence", Str("offline")))
        /\ Ended(r, RetEv("token", Str("")))
        /\ Done(r)

\* C5: a request read with a missing or empty title, body or user_id issues
\* no external call at all and answers HTTP 400 with status "error" and
\* "Missing title, body, or user_id".
C5_ValidationError ==
    \A r \in Reqs :
        (pc[r] # "start" /\ ~ValidArgs(r)) =>
            /\ ext[r] = <<>>
            /\ PostsOf(r) = {}
            /\ Done(r)
            /\ Answered(r, 400, "error", "Missing title, body, or user_id")

C5_Witness ==
    \E r \in Reqs :
        /\ args[r].title = Str("Hi") /\ args[r].body = Str("") /\ args[r].user_id = Str("u1")
        /\ Done(r)

\* The send step of request r timed out: during the credential refresh or
\* during the gateway POST.
SendTimedOut(r) ==
    \E i \in DOMAIN ext[r] :
        /\ ext[r][i].op \in {"refresh", "post"}
        /\ ext[r][i].kind = "raise"
        /\ ext[r][i].exc.cause = "timeout"

\* C6 as stated: wherever the send step times out, the result is status
\* "error" with the message "Timeout while sending notification".
C6_TimeoutAnywhere ==
    \A r \in Reqs :
        SendTimedOut(r) =>
            /\ Len(responses[r]) = 1
            /\ responses[r][1].body =
                   [status |-> "error", message |-> "Timeout while sending notification"]

\* C6 amended: when the gateway POST times out, the result is status "error"
\* with the message "Timeout while sending notification." (with its full
\* stop); any other exception of the POST is reported with its own
\* description, which differs from that string.
C6_PostTimeout ==
    \A r \in Reqs : \A e \in PostFailures :
        Ended(r, RaiseEv("post", e)) =>
            /\ Len(responses[r]) = 1
            /\ responses[r][1].body.status = "error"
            /\ IF e.cause = "timeout"
               THEN responses[r][1].body.message = "Timeout while sending notification."
               ELSE /\ responses[r][1].body.message = e.text
                    /\ responses[r][1].body.message # "Timeout while sending notification."

C6_Witness ==
    \E r \in Reqs : \E e \in PostFailures :
        e.cause = "timeout" /\ Ended(r, RaiseEv("post", e)) /\ Done(r)

\* Every response a request has returned is a Dispatch Result.
IsDispatchResult(resp) ==
    /\ DOMAIN resp.body = {"status", "message"}
    /\ resp.body.status \in {"success", "info", "error"}
    /\ resp.http \in {200, 400, 500}

C7_Structured ==
    \A r \in Reqs :
        /\ Len(responses[r]) <= 1
        /\ Done(r) <=> Len(responses[r]) = 1
        /\ \A i \in DOMAIN responses[r] : IsDispatchResult(responses[r][i])
        /\ \A e \in RouteFailures :
              Ended(r, RaiseEv("route", e)) => Answered(r, 500, "error", e.text)

\* C7: whatever the outcomes of the external calls, every request ends with
\* exactly one response, a Dispatch Result with status success, info or
\* error; an exception no step catches is answered by the route with HTTP
\* 500, status "error" and the exception's text.
C7_AlwaysOneResult ==
    [](C7_Structured) /\ <>(\A r \in Reqs : Done(r))

C7_Witness ==
    /\ \A r \in Reqs : Done(r)
    /\ \E r \in Reqs : Raised(r, "route")
    /\ \E r \in Reqs : Raised(r, "presence") \/ Raised(r, "token") \/ Raised(r, "refresh")

\* The outcomes request r got from outside, in order.
IsOutcome(ev) ==
    ev.kind # "call"

Answers(r) ==
    SelectSeq(ext[r], IsOutcome)

\* send_notification run alone on parameters a with the outcomes ans.
RunAlone(a, ans) ==
    IF InvalidArgs(a) THEN ValidationResponse
    ELSE IF ans[1].op = "route" THEN RouteCatch(ans[1].exc)
    ELSE IF StatusFailed(check_user_status(ans[1])) THEN StatusFailedResponse
    ELSE IF IsOnline(check_user_status(ans[1])) THEN OnlineResponse
    ELSE IF TokenMissing(get_device_token(ans[2])) THEN TokenMissingResponse
    ELSE IF get_access_token(ans[3]).kind = "raise"
         THEN JsonifyResult(SendFailureResult(get_access_token(ans[3]).exc))
    ELSE IF ans[4].kind = "ret" THEN JsonifyResult(FcmResponseResult(ans[4].http))
    ELSE JsonifyResult(SendFailureResult(ans[4].exc))

\* The requests the credential service issued the bearer token b to.
IssuedTo(b) ==
    {creds[i][1] : i \in {j \in DOMAIN creds : creds[j][2] = b}}

\* C8: under every interleaving, a finished request's response is the one it
\* gives when run alone on its parameters and its own outcomes; every request
\* that POSTs has refreshed the credential itself, and the bearer token of
\* its POST is the one issued to it and to no other request.
C8_Independent ==
    \A r \in Reqs :
        /\ Done(r) => responses[r] = <<RunAlone(args[r], Answers(r))>>
        /\ \A p \in PostsOf(r) :
              /\ IssuedTo(p.bearer) = {r}
              /\ Ended(r, RetEv("refresh", p.bearer))
              /\ p.token = device_token[r]
              /\ p.title = args[r].title /\ p.body = args[r].body
        /\ Cardinality(PostsOf(r)) <= 1

C8_Witness ==
    \E r1, r2 \in Reqs :
        /\ r1 # r2
        /\ Done(r1) /\ Done(r2)
        /\ PostsOf(r1) # {} /\ PostsOf(r2) # {}
        /\ creds[1][1] = r1
        /\ ext[r1][Len(ext[r1])].http.status_code = 404
        /\ ext[r2][Len(ext[r2])].http.status_code = 200

\* The external calls of one request, in the order the code issues them.
CallOrder ==
    <<"presence", "token", "refresh", "post">>

IsExternal(ev) ==
    ev.op # "route"

ExternalLog(r) ==
    SelectSeq(ext[r], IsExternal)

\* The outcome after which the code issues no further call: a raised
\* failure, an absent or "online" presence, an absent or empty token.
StopsPipeline(ev) ==
    \/ ev.kind = "raise"
    \/ ev = RetEv("presence", None)
    \/ ev = RetEv("presence", Str("online"))
    \/ ev = RetEv("token", None)
    \/ ev = RetEv("token", Str(""))

\* C9: a request issues at most one presence read, one token read, one
\* credential refresh and one gateway POST, in that order, each only after
\* the one before has ended, and none after a call failed or short-circuited.
C9_LinearNoRetry ==
    \A r \in Reqs :
        LET L == ExternalLog(r) IN
        /\ Len(L) <= 2 * Len(CallOrder)
        /\ \A i \in DOMAIN L :
              /\ L[i].op = CallOrder[(i + 1) \div 2]
              /\ (i % 2 = 1) => L[i].kind = "call"
              /\ (i % 2 = 0) => L[i].kind \in {"ret", "raise"}
              /\ (i < Len(L)) => ~StopsPipeline(L[i])
        /\ Cardinality(PostsOf(r)) <= 1
        /\ (PostsOf(r) # {}) <=> Called(r, "post")

C9_Witness ==
    \E r \in Reqs : Len(ExternalLog(r)) = 8 /\ Done(r)

\* C10: when the credential refresh fails, no gateway POST is issued and the
\* request answers HTTP 200 with status "error" and the failure's
\* description as message.
C10_RefreshFailure ==
    \A r \in Reqs : \A e \in RefreshFailures :
        Ended(r, RaiseEv("refresh", e)) =>
            /\ ~Called(r, "post")
            /\ PostsOf(r) = {}
            /\ Answered(r, 200, "error", e.text)

C10_Witness ==
    \E r \in Reqs : \E e \in RefreshFailures :
        e.cause = "timeout" /\ Ended(r, RaiseEv("refresh", e)) /\ Done(r)

====
